---- MODULE Spec2Model ----
(***************************************************************************)
(* TradingView -> MEXC relay (src/app.py).                                 *)
(*                                                                         *)
(* The model covers the exchange client (MEXCTrader), the lazily           *)
(* initialised global `trader`, and the four Flask routes.  Requests are   *)
(* served by NumHandlers concurrent handler threads.  A handler's steps    *)
(* are split where it reads or writes the global `trader`; everything      *)
(* else a handler does is local to it and is folded into the step.         *)
(*                                                                         *)
(* `last` is an observation, not program state: the step that finishes a   *)
(* request records there what the handler was given, which client methods  *)
(* it called, which requests it handed to the HTTP library, what was       *)
(* signed and what it answers; Respond, the handler's return, clears it.   *)
(* A handler finishes only when no other response is under observation;    *)
(* as Respond is always enabled then and touches nothing else, this        *)
(* removes no interleaving of the program's own state.                     *)
(*                                                                         *)
(* The body of a webhook is parsed at line 114 but not read before line    *)
(* 129 (or before the handler answers); being local to the handler, its    *)
(* content is drawn at the step that first needs it.                       *)
(*                                                                         *)
(* Python values that may be None are tagged records, so that None, a      *)
(* string and an object can be compared.  A dict is a function from its    *)
(* keys to values.  The HMAC digest is the (key, message) pair it is       *)
(* computed from.  A parsed JSON body is denoted by its canonical text.    *)
(***************************************************************************)
EXTENDS Integers, Sequences, FiniteSets, TLC

(* ---- bounds ---- *)
NumHandlers == 2
MaxTime == 2

Handlers == 1..NumHandlers
Times == 1..MaxTime

(* ---- Python values ---- *)
None == [cls |-> "NoneType"]
PyStr(s) == [cls |-> "str", s |-> s]
PyInt(i) == [cls |-> "int", i |-> i]
PyBool(b) == [cls |-> "bool", b |-> b]
PyJson(t) == [cls |-> "json", text |-> t]
EmptyDict == <<>>

\* str(x) for the values that reach it (line 40, line 71)
str(x) == IF x.cls = "int" THEN PyStr(ToString(x.i)) ELSE x

\* Python truthiness (lines 89, 117, 151, 197)
bool(x) ==
    CASE x.cls = "NoneType" -> FALSE
      [] x.cls = "str" -> x.s # ""
      [] x.cls = "int" -> x.i # 0
      [] x.cls = "bool" -> x.b
      [] x.cls = "json" -> x.text \notin {"{}", "[]", "0", "false", "\"\""}
      [] OTHER -> TRUE

\* dict.get(key, default)
get(d, k, default) == IF k \in DOMAIN d THEN d[k] ELSE default

\* d[k] = v on a dict
setitem(d, k, v) == [x \in DOMAIN d \cup {k} |-> IF x = k THEN v ELSE d[x]]

(* ---- configuration (lines 15-17) ---- *)
MEXC_BASE_URL == "https://api.mexc.com"
EnvValues(s) == {None, PyStr(""), PyStr(s)}

(* ---- sorted(params.items()) ---- *)
\* The keys the program ever puts in a parameter dict, in Python's string
\* order.
KeyOrder == <<"quoteOrderQty", "side", "signature", "symbol", "timestamp", "type">>
Rank(k) == CHOOSE i \in 1..Len(KeyOrder) : KeyOrder[i] = k

\* Ascending by key: the keys of d, in the order they have in KeyOrder.
sorted_items(d) ==
    LET InD(k) == k \in DOMAIN d
        ks == SelectSeq(KeyOrder, InD)
    IN [i \in 1..Len(ks) |-> <<ks[i], d[ks[i]]>>]

(* ---- MEXCTrader (lines 19-82) ---- *)
MEXCTrader(api_key, secret_key) ==
    [cls |-> "MEXCTrader", api_key |-> api_key, secret_key |-> secret_key,
     base_url |-> MEXC_BASE_URL]

\* The string that is signed: a sequence of <<key, value>> pairs, standing
\* for "k1=v1&k2=v2&...".
query_string(params, timestamp) ==
    sorted_items(params) \o << <<"timestamp", timestamp>> >>

_generate_signature(self, params, timestamp) ==
    [cls |-> "hmac_sha256_hex", key |-> self.secret_key,
     msg |-> query_string(params, timestamp)]

(* ---- the exchange's answer to one outbound request ---- *)
JsonTexts == {"{}", "[]", "null", "{\"orderId\":\"1\"}"}
Texts == JsonTexts \cup {"<html>"}
Outcomes ==
    {[kind |-> "transport_failure", status_code |-> 0, text |-> ""],
     [kind |-> "response", status_code |-> 400, text |-> "{\"code\":700002}"]}
    \cup {[kind |-> "response", status_code |-> 200, text |-> t] : t \in Texts}

\* response.raise_for_status()
raises_for_status(status_code) == status_code >= 400 /\ status_code < 600

\* response.json(); only used on JSON text
json(text) == IF text = "null" THEN None ELSE PyJson(text)

\* What the try block of lines 53-60 ends with: the exception it raises
\* ("" when it returns) and the value it returns.
try_body(sent, outcome) ==
    IF sent = << >> THEN [exc |-> "UnboundLocalError", value |-> None]
    ELSE IF outcome.kind = "transport_failure"
         THEN [exc |-> "ConnectionError", value |-> None]
    ELSE IF raises_for_status(outcome.status_code)
         THEN [exc |-> "HTTPError", value |-> None]
    ELSE IF outcome.text \notin JsonTexts
         THEN [exc |-> "JSONDecodeError", value |-> None]
    ELSE [exc |-> "", value |-> json(outcome.text)]

\* Variant: the handler catches requests' own exceptions only.
caught_requests_only(exc) == exc \in {"ConnectionError", "HTTPError"}

\* `except Exception` (line 61)
caught(exc) == exc # ""

\* Variant: a POST is sent a second time.
requests_made_retry(method, url, params, headers) ==
    IF method = "GET"
    THEN << [method |-> "GET", url |-> url, transport |-> "params",
             payload |-> params, headers |-> headers] >>
    ELSE IF method = "POST"
    THEN << [method |-> "POST", url |-> url, transport |-> "json",
             payload |-> params, headers |-> headers],
            [method |-> "POST", url |-> url, transport |-> "json",
             payload |-> params, headers |-> headers] >>
    ELSE << >>

\* Lines 54-57: the requests handed to the HTTP library, in order.  No
\* branch serves DELETE.
requests_made(method, url, params, headers) ==
    IF method = "GET"
    THEN << [method |-> "GET", url |-> url, transport |-> "params",
             payload |-> params, headers |-> headers] >>
    ELSE IF method = "POST"
    THEN << [method |-> "POST", url |-> url, transport |-> "json",
             payload |-> params, headers |-> headers] >>
    ELSE << >>

\* Lines 35-63.  `now` is int(time.time() * 1000); `outcome` is what the
\* network does with the request, if one is sent.  The result carries the
\* return value (ret) or the exception that leaves the method (raised)
\* and, for observation, the requests handed to the HTTP library and the
\* string that was signed.
_send_request(self, method, endpoint, params0, now, outcome) ==
    LET timestamp == str(PyInt(now))
        params1 == setitem(params0, "timestamp", timestamp)
        headers == [x \in {"X-MEXC-APIKEY", "Content-Type"} |->
                      IF x = "X-MEXC-APIKEY" THEN self.api_key
                      ELSE PyStr("application/json")]
        signature == _generate_signature(self, params1, timestamp)
        params == setitem(params1, "signature", signature)
        url == self.base_url \o endpoint
        sent == requests_made(method, url, params, headers)
        t == try_body(sent, outcome)
    IN [ret |-> IF t.exc = "" THEN t.value ELSE None,
        raised |-> IF caught(t.exc) THEN "" ELSE t.exc,
        sent |-> sent,
        signed |-> << [key |-> self.secret_key,
                       msg |-> query_string(params1, timestamp)] >>]

\* Variant: the quantity is passed on without str().
place_order_raw_quantity(self, symbol, side, quantity, order_type, now, outcome) ==
    LET params == [k \in {"symbol", "side", "type", "quoteOrderQty"} |->
                     CASE k = "symbol" -> symbol
                       [] k = "side" -> side
                       [] k = "type" -> order_type
                       [] k = "quoteOrderQty" -> quantity]
    IN _send_request(self, "POST", "/api/v3/order", params, now, outcome)
       @@ [params |-> params]

\* Lines 65-74.
place_order(self, symbol, side, quantity, order_type, now, outcome) ==
    LET params == [k \in {"symbol", "side", "type", "quoteOrderQty"} |->
                     CASE k = "symbol" -> symbol
                       [] k = "side" -> side
                       [] k = "type" -> order_type
                       [] k = "quoteOrderQty" -> str(quantity)]
    IN _send_request(self, "POST", "/api/v3/order", params, now, outcome)
       @@ [params |-> params]

\* Lines 76-78.
get_account_info(self, now, outcome) ==
    _send_request(self, "GET", "/api/v3/account", EmptyDict, now, outcome)
    @@ [params |-> EmptyDict]

\* Lines 80-82.
cancel_all_orders(self, symbol, now, outcome) ==
    _send_request(self, "DELETE", "/api/v3/openOrders",
                  [k \in {"symbol"} |-> symbol], now, outcome)
    @@ [params |-> [k \in {"symbol"} |-> symbol]]


(* ---- state ---- *)
VARIABLES
    MEXC_API_KEY,     \* line 15, fixed when the module is loaded
    MEXC_SECRET_KEY,  \* line 16
    trader,           \* line 85, the global client
    serving,          \* FALSE until the __main__ block has run (lines 209-212)
    pc,               \* per handler thread: where it is in its route
    route,            \* per handler thread: the route it is serving
    last              \* the request whose response is being sent, as observed

vars == <<MEXC_API_KEY, MEXC_SECRET_KEY, trader, serving, pc, route, last>>

\* Variant: `or` in place of `and` at line 89.
initialize_trader_either_key ==
    IF bool(MEXC_API_KEY) \/ bool(MEXC_SECRET_KEY)
    THEN MEXCTrader(MEXC_API_KEY, MEXC_SECRET_KEY)
    ELSE trader

\* Variant: the two keys change places at line 90.
initialize_trader_swapped ==
    IF bool(MEXC_API_KEY) /\ bool(MEXC_SECRET_KEY)
    THEN MEXCTrader(MEXC_SECRET_KEY, MEXC_API_KEY)
    ELSE trader

\* Lines 87-95: the value of the global `trader` after the call.
initialize_trader ==
    IF bool(MEXC_API_KEY) /\ bool(MEXC_SECRET_KEY)
    THEN MEXCTrader(MEXC_API_KEY, MEXC_SECRET_KEY)
    ELSE trader

(* ---- inbound requests ---- *)
Actions == {"buy", "long", "sell", "short", "close_long", "close_short",
            "close", "xyz"}
Symbols == {"ETHUSDT"}
Quantities == {50}

\* A JSON object with any subset of the three keys the handler reads.
Opt(S) == {<<>>} \cup {<<x>> : x \in S}
Field(k, o) == IF o = <<>> THEN EmptyDict ELSE [x \in {k} |-> o[1]]
WebhookObjects ==
    {Field("action", a) @@ Field("symbol", s) @@ Field("quantity", q) :
        a \in Opt({PyStr(x) : x \in Actions}),
        s \in Opt({PyStr(x) : x \in Symbols}),
        q \in Opt({PyInt(x) : x \in Quantities})}

NoRequest ==
    [route |-> "", handler |-> 0, bodykind |-> "", data |-> EmptyDict,
     client |-> None, calls |-> << >>, sent |-> << >>, signed |-> << >>,
     rets |-> << >>, raised |-> "", outcome |-> None,
     response |-> [code |-> 0, body |-> EmptyDict]]

Response(code, body) == [code |-> code, body |-> body]
Error(msg) == [k \in {"error"} |-> PyStr(msg)]


\* One call of a client method, and what it did.
Call(op, args, r) ==
    [calls |-> << [op |-> op, args |-> args, params |-> r.params] >>,
     sent |-> r.sent, signed |-> r.signed, rets |-> << r.ret >>,
     raised |-> r.raised]
NoCall == [calls |-> << >>, sent |-> << >>, signed |-> << >>,
           rets |-> << >>, raised |-> ""]

\* Variant: the last elif of the chain is an else.
intent_close_otherwise(action) ==
    IF action.cls # "str" THEN "close"
    ELSE IF action.s \in {"buy", "long"} THEN "BUY"
    ELSE IF action.s \in {"sell", "short"} THEN "SELL"
    ELSE "close"

\* Variant: the synonym long is missing from line 133.
intent_without_long(action) ==
    IF action.cls # "str" THEN "invalid"
    ELSE IF action.s \in {"buy"} THEN "BUY"
    ELSE IF action.s \in {"sell", "short"} THEN "SELL"
    ELSE IF action.s \in {"close_long", "close_short", "close"} THEN "close"
    ELSE "invalid"

\* The if/elif chain of lines 133-149: which branch an action takes.
intent(action) ==
    IF action.cls # "str" THEN "invalid"
    ELSE IF action.s \in {"buy", "long"} THEN "BUY"
    ELSE IF action.s \in {"sell", "short"} THEN "SELL"
    ELSE IF action.s \in {"close_long", "close_short", "close"} THEN "close"
    ELSE "invalid"

\* Lines 129-163 of webhook(): the part after the client check, run with
\* `self`, the value of the global `trader` when the method is looked up.
webhook_tail(self, bodykind, data, now, outcome) ==
    IF bodykind # "object"
    THEN \* data.get on None: AttributeError, caught at line 161
         NoCall @@ [response |-> Response(500, Error("AttributeError"))]
    ELSE
    LET action == get(data, "action", None)
        symbol == get(data, "symbol", PyStr("BTCUSDT"))
        quantity == get(data, "quantity", PyInt(10))
        branch == intent(action)
        buy == Call("place_order",
                    <<symbol, PyStr("BUY"), quantity, PyStr("MARKET")>>,
                    place_order(self, symbol, PyStr("BUY"), quantity,
                                PyStr("MARKET"), now, outcome))
        sell == Call("place_order",
                     <<symbol, PyStr("SELL"), quantity, PyStr("MARKET")>>,
                     place_order(self, symbol, PyStr("SELL"), quantity,
                                 PyStr("MARKET"), now, outcome))
        close == Call("cancel_all_orders", <<symbol>>,
                      cancel_all_orders(self, symbol, now, outcome))
        amount == symbol.s \o " - " \o str(quantity).s \o " USDT"
        done(c, message) ==
            c @@ [response |->
                    IF c.raised # ""
                    THEN Response(500, Error(c.raised))       \* line 163
                    ELSE IF bool(c.rets[1])
                    THEN Response(200,
                           [k \in {"status", "message", "mexc_response"} |->
                              CASE k = "status" -> PyStr("success")
                                [] k = "message" -> PyStr(message)
                                [] k = "mexc_response" -> c.rets[1]])
                    ELSE Response(500, Error("Trade failed"))]
    IN IF branch = "BUY" THEN done(buy, "LONG acildi: " \o amount)
       ELSE IF branch = "SELL" THEN done(sell, "SELL acildi: " \o amount)
       ELSE IF branch = "close" THEN done(close, "Pozisyon kapatildi: " \o symbol.s)
       ELSE NoCall @@ [response |-> Response(400, Error("Invalid action"))]

\* Lines 174-183 of status().  No try block: an exception of the client
\* would leave the handler.
status_tail(self, now, outcome) ==
    LET c == Call("get_account_info", << >>,
                  get_account_info(self, now, outcome))
    IN c @@ [response |->
               IF c.raised # "" THEN Response(500, Error(c.raised))
               ELSE Response(200,
                      [k \in {"status", "mexc_connected"} |->
                         IF k = "status" THEN PyStr("running")
                         ELSE PyBool(c.rets[1] # None)])]

\* Lines 193-207 of test_trade().
test_tail(self, now, outcome) ==
    LET c == Call("get_account_info", << >>,
                  get_account_info(self, now, outcome))
    IN c @@ [response |->
               IF c.raised # "" THEN Response(500, Error(c.raised))
               ELSE IF bool(c.rets[1])
               THEN Response(200,
                      [k \in {"status", "account_info"} |->
                         IF k = "status" THEN PyStr("success")
                         ELSE c.rets[1]])
               ELSE Response(500, Error("MEXC baglantisi basarisiz!"))]

\* The response of each route when the client is still missing after
\* initialize_trader() (lines 120, 172, 191).
not_initialized(r) ==
    CASE r = "webhook" -> Response(500, Error("MEXC trader not initialized"))
      [] r = "status" ->
           Response(200, [k \in {"status", "message"} |->
                            IF k = "status" THEN PyStr("error")
                            ELSE PyStr("Trader not initialized")])
      [] r = "test" -> Response(500, Error("Trader not initialized"))

Finished(h, r, bodykind, data, self, outcome, obs) ==
    [route |-> r, handler |-> h, bodykind |-> bodykind, data |-> data,
     client |-> self,
     outcome |-> IF obs.sent = << >> THEN None ELSE outcome] @@ obs

(* ---- initial states ---- *)
Init ==
    /\ MEXC_API_KEY \in EnvValues("AK")
    /\ MEXC_SECRET_KEY \in EnvValues("SK")
    /\ trader = None
    /\ serving \in BOOLEAN      \* FALSE: run as a script; TRUE: imported by a server
    /\ pc = [h \in Handlers |-> "idle"]
    /\ route = [h \in Handlers |-> ""]
    /\ last = NoRequest

(* ---- actions ---- *)
\* Lines 209-212: the script initialises the client, then serves.
Main ==
    /\ ~serving
    /\ trader' = initialize_trader
    /\ serving' = TRUE
    /\ UNCHANGED <<MEXC_API_KEY, MEXC_SECRET_KEY, pc, route, last>>

\* Lines 97-108.
Home(h) ==
    /\ serving /\ pc[h] = "idle"
    /\ last = NoRequest
    /\ last' = Finished(h, "home", "", EmptyDict, None, None,
                  NoCall @@ [response |->
                     Response(200, [k \in {"status"} |->
                                      PyStr("TradingView MEXC Bot Running")])])
    /\ pc' = [pc EXCEPT ![h] = "respond"]
    /\ route' = [route EXCEPT ![h] = "home"]
    /\ UNCHANGED <<MEXC_API_KEY, MEXC_SECRET_KEY, trader, serving>>

\* A request arrives and the handler runs up to and including its first
\* read of `trader` (lines 114-117, 168, 188).
Enter(h, r) ==
    /\ serving /\ pc[h] = "idle"
    /\ route' = [route EXCEPT ![h] = r]
    /\ pc' = [pc EXCEPT ![h] = IF ~bool(trader) THEN "init"
                                ELSE IF r = "status" THEN "recheck"
                                ELSE "call"]
    /\ UNCHANGED <<MEXC_API_KEY, MEXC_SECRET_KEY, trader, serving, last>>

\* Line 114 raises (the body is not JSON); line 163 answers.
WebhookBadBody(h) ==
    /\ serving /\ pc[h] = "idle"
    /\ last = NoRequest
    /\ last' = Finished(h, "webhook", "unparseable", EmptyDict, None, None,
                  NoCall @@ [response |-> Response(500, Error("BadRequest"))])
    /\ pc' = [pc EXCEPT ![h] = "respond"]
    /\ route' = [route EXCEPT ![h] = "webhook"]
    /\ UNCHANGED <<MEXC_API_KEY, MEXC_SECRET_KEY, trader, serving>>

\* initialize_trader() at lines 118, 169, 189.
Initialize(h) ==
    /\ pc[h] = "init"
    /\ trader' = initialize_trader
    /\ pc' = [pc EXCEPT ![h] = "recheck"]
    /\ UNCHANGED <<MEXC_API_KEY, MEXC_SECRET_KEY, serving, route, last>>

\* The second `if not trader` (lines 119, 171, 190), client present.
RecheckPass(h) ==
    /\ pc[h] = "recheck" /\ bool(trader)
    /\ pc' = [pc EXCEPT ![h] = "call"]
    /\ UNCHANGED <<MEXC_API_KEY, MEXC_SECRET_KEY, trader, serving, route, last>>

\* The second `if not trader`, client missing: the request is answered.
\* The body of a webhook has been parsed by then (line 114) but not read.
RecheckFail(h) ==
    /\ pc[h] = "recheck" /\ ~bool(trader)
    /\ last = NoRequest
    /\ \E bodykind \in {"object", "nonobject"} :
       \E data \in IF bodykind = "object" THEN WebhookObjects ELSE {EmptyDict} :
          /\ route[h] # "webhook" => bodykind = "nonobject"
          /\ last' = Finished(h, route[h],
                        IF route[h] = "webhook" THEN bodykind ELSE "",
                        data, None, None,
                        NoCall @@ [response |-> not_initialized(route[h])])
    /\ pc' = [pc EXCEPT ![h] = "respond"]
    /\ UNCHANGED <<MEXC_API_KEY, MEXC_SECRET_KEY, trader, serving, route>>

\* Lines 129-163: the webhook reads its body, calls the client and answers.
WebhookCall(h) ==
    /\ pc[h] = "call" /\ route[h] = "webhook"
    /\ last = NoRequest
    /\ \E bodykind \in {"object", "nonobject"} :
       \E data \in IF bodykind = "object" THEN WebhookObjects ELSE {EmptyDict} :
       \E now \in Times, outcome \in Outcomes :
          last' = Finished(h, "webhook", bodykind, data, trader, outcome,
                     webhook_tail(trader, bodykind, data, now, outcome))
    /\ pc' = [pc EXCEPT ![h] = "respond"]
    /\ UNCHANGED <<MEXC_API_KEY, MEXC_SECRET_KEY, trader, serving, route>>

\* Lines 175-183.
StatusCall(h) ==
    /\ pc[h] = "call" /\ route[h] = "status"
    /\ last = NoRequest
    /\ \E now \in Times, outcome \in Outcomes :
          last' = Finished(h, "status", "", EmptyDict, trader, outcome,
                     status_tail(trader, now, outcome))
    /\ pc' = [pc EXCEPT ![h] = "respond"]
    /\ UNCHANGED <<MEXC_API_KEY, MEXC_SECRET_KEY, trader, serving, route>>

\* Lines 193-207.
TestCall(h) ==
    /\ pc[h] = "call" /\ route[h] = "test"
    /\ last = NoRequest
    /\ \E now \in Times, outcome \in Outcomes :
          last' = Finished(h, "test", "", EmptyDict, trader, outcome,
                     test_tail(trader, now, outcome))
    /\ pc' = [pc EXCEPT ![h] = "respond"]
    /\ UNCHANGED <<MEXC_API_KEY, MEXC_SECRET_KEY, trader, serving, route>>

\* The handler's `return`: the response that `last` shows leaves it.
Respond(h) ==
    /\ pc[h] = "respond"
    /\ pc' = [pc EXCEPT ![h] = "idle"]
    /\ route' = [route EXCEPT ![h] = ""]
    /\ last' = NoRequest
    /\ UNCHANGED <<MEXC_API_KEY, MEXC_SECRET_KEY, trader, serving>>

Next ==
    \/ Main
    \/ \E h \in Handlers :
         \/ Home(h)
         \/ \E r \in {"webhook", "status", "test"} : Enter(h, r)
         \/ WebhookBadBody(h)
         \/ Initialize(h)
         \/ RecheckPass(h)
         \/ RecheckFail(h)
         \/ WebhookCall(h)
         \/ StatusCall(h)
         \/ TestCall(h)
         \/ Respond(h)

Spec == Init /\ [][Next]_vars


(* ---- vocabulary of the properties ---- *)
Recognized == {"buy", "long", "sell", "short", "close_long", "close_short",
               "close"}
CredentialsPresent ==
    /\ MEXC_API_KEY # None /\ MEXC_API_KEY # PyStr("")
    /\ MEXC_SECRET_KEY # None /\ MEXC_SECRET_KEY # PyStr("")

\* The request being answered is a webhook whose body is a JSON object.
WebhookObject == last.route = "webhook" /\ last.bodykind = "object"
HasAction(names) ==
    /\ "action" \in DOMAIN last.data
    /\ last.data["action"].s \in names
SymbolSent ==
    IF "symbol" \in DOMAIN last.data THEN last.data["symbol"]
    ELSE PyStr("BTCUSDT")
QuantitySent ==
    IF "quantity" \in DOMAIN last.data THEN last.data["quantity"]
    ELSE PyInt(10)
\* The exchange answered the request with a 2xx status and a JSON body.
AnsweredJson ==
    /\ last.sent # << >>
    /\ last.outcome.kind = "response"
    /\ last.outcome.status_code \in 200..299
    /\ last.outcome.text \in JsonTexts
ParsedAnswer ==
    IF last.outcome.text = "null" THEN None
    ELSE [cls |-> "json", text |-> last.outcome.text]
ErrorBody(msg) == [k \in {"error"} |-> [cls |-> "str", s |-> msg]]
Keys(m) == {m[j][1] : j \in 1..Len(m)}

(* ---- C1 ---- *)
\* C1: the string that is signed is the request's parameters other than
\* timestamp and signature, ascending by key, followed by the timestamp as
\* the last pair; the key timestamp occurs exactly once in it and the key
\* signature never.
C1_SignedStringCanonical ==
    \A i \in 1..Len(last.calls) :
        LET m == last.signed[i].msg
            p == last.calls[i].params
            n == Len(m)
        IN /\ n = Cardinality(DOMAIN p) + 1
           /\ \A j \in 1..(n - 1) :
                 /\ m[j][1] \in DOMAIN p \ {"timestamp", "signature"}
                 /\ m[j][2] = p[m[j][1]]
           /\ \A j, k \in 1..(n - 1) : j < k => Rank(m[j][1]) < Rank(m[k][1])
           /\ m[n][1] = "timestamp"
           /\ Cardinality({j \in 1..n : m[j][1] = "timestamp"}) = 1
           /\ "signature" \notin Keys(m)

(* ---- C2 ---- *)
\* C2: every invocation of _send_request performs exactly one outbound
\* request; cancel_all_orders sends one DELETE to /api/v3/openOrders that
\* carries symbol, timestamp and signature.
C2_OneRequestPerInvocation ==
    /\ Len(last.sent) = Len(last.calls)
    /\ \A i \in 1..Len(last.calls) :
          last.calls[i].op = "cancel_all_orders" =>
             /\ last.sent[i].method = "DELETE"
             /\ last.sent[i].url = "https://api.mexc.com/api/v3/openOrders"
             /\ DOMAIN last.sent[i].payload = {"symbol", "timestamp", "signature"}

(* ---- C3 ---- *)
\* C3 as stated: a webhook whose action is not a recognized one is answered
\* 400 (invalid action) and makes no exchange call, whether or not the
\* client is initialized or credentials are configured.
C3_InvalidActionAlways400 ==
    (WebhookObject /\ ~HasAction(Recognized)) =>
        /\ last.response = [code |-> 400, body |-> ErrorBody("Invalid action")]
        /\ last.sent = << >>

\* C3 as amended: a webhook whose JSON-object body has no recognized action
\* makes no exchange call; it is answered 400 (invalid action) when both
\* credentials are configured and 500 (trader not initialized) when one is
\* absent.
C3_InvalidActionNoCall ==
    (WebhookObject /\ ~HasAction(Recognized)) =>
        /\ last.sent = << >>
        /\ last.response =
             IF CredentialsPresent
             THEN [code |-> 400, body |-> ErrorBody("Invalid action")]
             ELSE [code |-> 500, body |-> ErrorBody("MEXC trader not initialized")]

C3_Witness ==
    /\ WebhookObject /\ HasAction({"xyz"})
    /\ last.client # None
    /\ last.response.code = 400

(* ---- C4 ---- *)
\* C4: for a webhook with a recognized action and an initialized client, a
\* 2xx answer with a JSON body (any JSON value) is relayed as 200 with
\* status success and mexc_response equal to the body; the answer is 500
\* only when the exchange call failed (transport failure, non-2xx status,
\* non-JSON body).
C4_JsonAnswerRelayed ==
    (WebhookObject /\ HasAction(Recognized) /\ last.client # None) =>
        /\ AnsweredJson =>
              /\ last.response.code = 200
              /\ last.response.body["status"] = PyStr("success")
              /\ last.response.body["mexc_response"] = ParsedAnswer
        /\ last.response.code = 500 =>
              /\ last.sent # << >>
              /\ \/ last.outcome.kind = "transport_failure"
                 \/ last.outcome.status_code \notin 200..299
                 \/ last.outcome.text \notin JsonTexts

(* ---- C5 ---- *)
\* C5: with an initialized client the webhook invokes exactly one client
\* method, fixed by the action: buy and long place_order(symbol, BUY,
\* quantity, MARKET); sell and short place_order(symbol, SELL, quantity,
\* MARKET); close_long, close_short and close cancel_all_orders(symbol),
\* once, and no place_order.  Synonymous actions give the same calls.
C5_Expected ==
    IF HasAction({"buy", "long"})
    THEN << [op |-> "place_order",
             args |-> <<SymbolSent, PyStr("BUY"), QuantitySent, PyStr("MARKET")>>] >>
    ELSE IF HasAction({"sell", "short"})
    THEN << [op |-> "place_order",
             args |-> <<SymbolSent, PyStr("SELL"), QuantitySent, PyStr("MARKET")>>] >>
    ELSE << [op |-> "cancel_all_orders", args |-> <<SymbolSent>>] >>

C5_OneCallPerAction ==
    (WebhookObject /\ HasAction(Recognized) /\ last.client # None) =>
        /\ Len(last.calls) = 1
        /\ [op |-> last.calls[1].op, args |-> last.calls[1].args] = C5_Expected[1]

C5_Witness ==
    /\ WebhookObject /\ HasAction({"close"})
    /\ last.client # None
    /\ Len(last.calls) = 1
    /\ last.calls[1].op = "cancel_all_orders"

(* ---- C6 ---- *)
NotInitializedResponse ==
    CASE last.route = "webhook" ->
           [code |-> 500, body |-> ErrorBody("MEXC trader not initialized")]
      [] last.route = "test" ->
           [code |-> 500, body |-> ErrorBody("Trader not initialized")]
      [] last.route = "status" ->
           [code |-> 200,
            body |-> [k \in {"status", "message"} |->
                        IF k = "status" THEN PyStr("error")
                        ELSE PyStr("Trader not initialized")]]

\* C6 as stated: without MEXC_API_KEY or MEXC_SECRET_KEY the global trader
\* stays None, no outbound request is made, and every request to /webhook,
\* /test and /status fails with the initialization error (/webhook and
\* /test with 500).
C6_EveryRequestInitError ==
    ~CredentialsPresent =>
        /\ trader = None
        /\ last.sent = << >>
        /\ last.route \in {"webhook", "test", "status"} =>
              last.response = NotInitializedResponse

\* C6 as amended: without MEXC_API_KEY or MEXC_SECRET_KEY the global trader
\* stays None, no outbound request is made, and every request to /status
\* and /test and every request to /webhook whose body parses as JSON fails
\* with the initialization error (/webhook and /test with 500); a webhook
\* whose body does not parse is answered 500 without it.
C6_InitErrorWhenParsed ==
    ~CredentialsPresent =>
        /\ trader = None
        /\ last.sent = << >>
        /\ last.route \in {"webhook", "test", "status"} =>
              IF last.bodykind = "unparseable"
              THEN last.response.code = 500
              ELSE last.response = NotInitializedResponse

C6_Witness ==
    /\ ~CredentialsPresent
    /\ WebhookObject /\ HasAction({"buy"})
    /\ last.response = [code |-> 500,
                        body |-> ErrorBody("MEXC trader not initialized")]

(* ---- C7 ---- *)
C7_State ==
    /\ \/ trader = None
       \/ /\ CredentialsPresent
          /\ trader = [cls |-> "MEXCTrader", api_key |-> MEXC_API_KEY,
                       secret_key |-> MEXC_SECRET_KEY,
                       base_url |-> "https://api.mexc.com"]
    /\ \A h \in Handlers : pc[h] = "call" => trader # None
    /\ last.calls # << >> =>
          /\ last.client.api_key = MEXC_API_KEY
          /\ last.client.secret_key = MEXC_SECRET_KEY
          /\ \A i \in 1..Len(last.sent) :
                last.sent[i].headers["X-MEXC-APIKEY"] = MEXC_API_KEY
          /\ \A i \in 1..Len(last.signed) :
                last.signed[i].key = MEXC_SECRET_KEY

C7_Step == trader # None => trader' = trader

\* C7: under any interleaving of first requests, the global trader is None
\* or a client holding exactly the configured keys; once set it is never
\* None again; and every handler that passes its `if not trader` check
\* calls the exchange through a client bound to those keys.
C7_LazyInitSafe == [](C7_State) /\ [][C7_Step]_vars

\* Two handlers raced: one has built the client while another, which saw
\* None, is about to build it again.
C7_Witness ==
    /\ trader # None
    /\ \E g, h \in Handlers :
          /\ g # h
          /\ pc[g] = "init"
          /\ pc[h] = "respond" /\ last.handler = h /\ last.calls # << >>

(* ---- C8 ---- *)
\* C8: handling one webhook makes at most one outbound request, whatever
\* the action and whatever the outcome of that request.
C8_AtMostOneRequest ==
    last.route = "webhook" => Len(last.sent) <= 1

C8_Witness ==
    /\ WebhookObject /\ HasAction({"buy"})
    /\ Len(last.sent) = 1
    /\ last.outcome.kind = "transport_failure"
    /\ last.response.code = 500

C10_PlaceOrderRequest ==
    (last.calls # << >> /\ last.calls[1].op = "place_order") =>
        LET c == last.calls[1]
            r == last.sent[1]
        IN /\ c.args[1] = SymbolSent /\ c.args[3] = QuantitySent
           /\ DOMAIN c.params = {"symbol", "side", "type", "quoteOrderQty"}
           /\ c.params["symbol"] = c.args[1]
           /\ c.params["side"] = c.args[2]
           /\ c.params["type"] = c.args[4]
           /\ c.params["quoteOrderQty"] =
                 [cls |-> "str", s |-> ToString(c.args[3].i)]
           /\ Len(last.sent) = 1
           /\ r.method = "POST" /\ r.transport = "json"
           /\ r.url = "https://api.mexc.com/api/v3/order"
           /\ DOMAIN r.payload = {"symbol", "side", "type", "quoteOrderQty",
                                  "timestamp", "signature"}
           /\ \A k \in {"symbol", "side", "type", "quoteOrderQty"} :
                 r.payload[k] = c.params[k]
           /\ r.headers["X-MEXC-APIKEY"] = MEXC_API_KEY
           /\ \A k \in DOMAIN r.payload :
                 r.payload[k] \notin {MEXC_API_KEY, MEXC_SECRET_KEY}
           /\ \A k \in DOMAIN r.headers : r.headers[k] # MEXC_SECRET_KEY

C10_Witness ==
    /\ WebhookObject /\ HasAction({"buy"})
    /\ DOMAIN last.data = {"action"}
    /\ Len(last.sent) = 1
    /\ last.sent[1].payload["symbol"] = PyStr("BTCUSDT")
    /\ last.sent[1].payload["quoteOrderQty"] = PyStr("10")

====
